---- MODULE Spec2Model ----
(***************************************************************************)
(* thumper: one-way sync of a local directory tree into a storage zone.    *)
(*                                                                         *)
(* Names (remote keys, local paths, prefixes) are byte strings, modelled   *)
(* as sequences of character codes, so that starts_with, ends_with and the *)
(* lexicographic order of str are computed as the code computes them.      *)
(* Option<T> is a sequence of length 0 (None) or 1 (Some).                 *)
(***************************************************************************)
EXTENDS Integers, Sequences, FiniteSets, TLC

VARIABLES
    disk,              \* the local tree: local path -> bytes
    store,             \* the storage zone: key -> [content, checksum]
    ignore,            \* SyncJob.ignore, the protected prefixes
    concurrency,       \* SyncJob.concurrency
    dry_run,           \* SyncJob.dry_run
    force,             \* SyncJob.force
    pc,                \* position of the thread that runs SyncJob::execute
    lock,              \* the Option<Lock> of execute
    result,            \* what execute returns, once known
    local,             \* LocalMap: key -> local path
    remote,            \* RemoteMap: key -> FileMeta
    tasks,             \* the Vec<Task> returned by plan_sync
    dir_work,          \* concurrent_discover_files: the channel of paths
    dir_result,        \* concurrent_discover_files: the channel of listings
    responses_needed,  \* concurrent_discover_files: outstanding listings
    files,             \* concurrent_discover_files: the files found
    lister,            \* the threads spawned by concurrent_discover_files
    task_work,         \* execute: the channel of tasks
    task_result,       \* execute: the channel of outcomes
    collected,         \* execute: outcomes the coordinator has received
    worker,            \* the threads spawned by execute
    open,              \* which channel ends are still alive
    reqs,              \* history: how often each request was issued
    faults,            \* history: requests and reads that failed so far
    store0,            \* history: the storage zone when the run started
    held,              \* history: Lock::new has returned a Lock
    resolved,          \* SpecPlan: the last (task, reads, result) of Task::plan
    runs               \* SpecLock: the invocations that share one lock object

\* what no step of a single run changes
cfgVars == <<disk, ignore, concurrency, dry_run, force, store0, runs>>
enumVars == <<dir_work, dir_result, responses_needed, files, lister>>
execVars == <<task_work, task_result, collected, worker>>

vars == <<disk, store, ignore, concurrency, dry_run, force, pc, lock, result,
          local, remote, tasks, dir_work, dir_result, responses_needed, files,
          lister, task_work, task_result, collected, worker, open, reqs,
          faults, store0, held, resolved, runs>>

----------------------------------------------------------------------------
(* Bounds of the model *)

\* largest number of keys present locally or remotely in a planner input
MaxPlanFiles == 3

\* largest number of files, other than the lock marker, a run starts with
MaxRunFiles == 2

\* largest SyncJob.concurrency
MaxConcurrency == 2

\* largest number of failing requests and reads in one run
MaxFaults == 1

----------------------------------------------------------------------------
(* Strings *)

None == <<>>
Some(x) == <<x>>

Ok(v) == [ok |-> TRUE, val |-> v]
Err(e) == [ok |-> FALSE, err |-> e]

StartsWith(s, p) == Len(p) <= Len(s) /\ SubSeq(s, 1, Len(p)) = p

EndsWith(s, p) == Len(p) <= Len(s) /\ SubSeq(s, Len(s) - Len(p) + 1, Len(s)) = p

\* the order of str: bytewise lexicographic, a proper prefix sorts first
RECURSIVE StrLess(_, _)
StrLess(a, b) ==
    IF a = <<>> THEN b # <<>>
    ELSE IF b = <<>> THEN FALSE
    ELSE IF Head(a) # Head(b) THEN Head(a) < Head(b)
    ELSE StrLess(Tail(a), Tail(b))

\* ".html" and ".htm"
DotHtml == <<46, 104, 116, 109, 108>>
DotHtm == <<46, 104, 116, 109>>

\* the names the model draws its trees from
A_HTML == <<97, 46, 104, 116, 109, 108>>       \* "a.html"
B_HTM == <<98, 46, 104, 116, 109>>             \* "b.htm"
C_JS == <<99, 46, 106, 115>>                   \* "c.js"
Z_CSS == <<122, 46, 99, 115, 115>>             \* "z.css"
K_X_JS == <<107, 47, 120, 46, 106, 115>>       \* "k/x.js"
K_S_Y == <<107, 47, 115, 47, 121>>             \* "k/s/y"
LOCKFILE == <<46, 108, 111, 99, 107>>          \* ".lock", SyncJob.lockfile

\* the keys planner inputs are drawn from
PlanKeys == {A_HTML, B_HTM, C_JS, Z_CSS, K_X_JS}

\* prefixes the planner may be told to protect: "k" and "a"
PlanPrefixes == {<<107>>, <<97>>}

\* the keys a run's local tree and storage zone are drawn from
RunKeys == {A_HTML, K_X_JS, K_S_Y}

\* the protected-prefix lists a run may be given: none, "k", and "k" with "."
RunIgnores == {{}, {<<107>>}, {<<107>>, <<46>>}}

Slash == <<47>>

\* SyncJob.remote_path after normalize_path: "/", the whole storage zone
RemotePath == <<47>>

\* "/{storage_zone}/" for the storage zone "z"
GlobalPrefix == <<47, 122, 47>>

\* SyncJob.local_path after normalize_path: "w/"
LocalRoot == <<119, 47>>

\* file contents
Contents == {"A", "B"}

\* marker contents: the timestamp a dangling marker holds, and Local::now()
OldTimestamp == "t0"
Now == "t1"

\* SHA-256 is modelled as an injective function of the content
Sha256(content) == [sha256 |-> content]

Digests == {Sha256(c) : c \in Contents}

----------------------------------------------------------------------------
(* sync/local_path.rs *)

\* the key of a local file when remote_root is empty: the path below root
remote_name(path) == SubSeq(path, Len(LocalRoot) + 1, Len(path))

files_by_remote_name(d) ==
    [k \in {remote_name(p) : p \in DOMAIN d} |->
        CHOOSE p \in DOMAIN d : remote_name(p) = k]

----------------------------------------------------------------------------
(* sync/plan.rs *)

must_remove_keeps_local(local_files, remote_files, ignored_prefix) ==
    {p \in DOMAIN remote_files :
        ~ \E prefix \in ignored_prefix : StartsWith(p, prefix)}

must_remove_no_protection(local_files, remote_files, ignored_prefix) ==
    {p \in DOMAIN remote_files : p \notin DOMAIN local_files}

must_remove(local_files, remote_files, ignored_prefix) ==
    {p \in DOMAIN remote_files :
        /\ p \notin DOMAIN local_files
        /\ ~ \E prefix \in ignored_prefix : StartsWith(p, prefix)}

is_html(path) == EndsWith(path, DotHtml) \/ EndsWith(path, DotHtm)

sort_key_less_plain(a, b) == StrLess(a, b)

\* the order of the sort key (is_html, path): false sorts before true
sort_key_less(a, b) ==
    IF is_html(a) # is_html(b) THEN ~ is_html(a) ELSE StrLess(a, b)

RECURSIVE sort_by_key(_)
sort_by_key(S) ==
    IF S = {} THEN <<>>
    ELSE LET m == CHOOSE x \in S : \A y \in S \ {x} : sort_key_less(x, y)
         IN  <<m>> \o sort_by_key(S \ {m})

\* the orders in which a hash set of these members may be iterated
Orderings(S) ==
    {o \in [1..Cardinality(S) -> S] : \A i, j \in DOMAIN o : i # j => o[i] # o[j]}

TaskPut(l, r) == [kind |-> "Put", local |-> l, remote |-> r]
TaskReplace(l, r, c) ==
    [kind |-> "Replace", local |-> l, remote |-> r, remote_checksum |-> c]
TaskDelete(r) == [kind |-> "Delete", remote |-> r]

put_or_replace_always_put(local_map, remote_content, remote_path) ==
    TaskPut(local_map[remote_path], remote_path)

put_or_replace(local_map, remote_content, remote_path) ==
    IF remote_path \in DOMAIN remote_content
    THEN TaskReplace(local_map[remote_path], remote_path,
                     remote_content[remote_path].checksum)
    ELSE TaskPut(local_map[remote_path], remote_path)

plan_sync_deletes_first(local_map, remote_content, ign, iter) ==
    LET local_paths_ordered == sort_by_key(DOMAIN local_map)
    IN  [i \in 1..Len(iter) |-> TaskDelete(iter[i])]
        \o [i \in 1..Len(local_paths_ordered) |->
               put_or_replace(local_map, remote_content, local_paths_ordered[i])]

\* iter is the order in which the set returned by must_remove is iterated
plan_sync(local_map, remote_content, ign, iter) ==
    LET local_paths_ordered == sort_by_key(DOMAIN local_map)
    IN  [i \in 1..Len(local_paths_ordered) |->
            put_or_replace(local_map, remote_content, local_paths_ordered[i])]
        \o [i \in 1..Len(iter) |-> TaskDelete(iter[i])]

----------------------------------------------------------------------------
(* sync/task.rs *)

\* infer::get_from_path on the modelled contents (text without a magic number)
infer_mime(bytes) == None

ActionPut(content, mime_type) ==
    [kind |-> "Put", content |-> content, mime_type |-> mime_type]
ActionIgnore == [kind |-> "Ignore"]
ActionDelete == [kind |-> "Delete"]

Execution(r, a) == [remote |-> r, action |-> a]

\* Task::plan. read is what the injected reader returns for task.local, fs
\* what the file system returns for it (fs::read, infer::get_from_path).
task_plan_ignores_checksum(task, read, fs) ==
    IF task.kind = "Delete" THEN Ok(Execution(task.remote, ActionDelete))
    ELSE IF task.kind = "Put" THEN
        IF ~ fs.ok THEN Err("io")
        ELSE Ok(Execution(task.remote, ActionPut(fs.val, infer_mime(fs.val))))
    ELSE IF ~ read.ok \/ ~ fs.ok THEN Err("io")
    ELSE IF task.remote_checksum = None
         THEN Ok(Execution(task.remote, ActionPut(read.val, infer_mime(fs.val))))
         ELSE Ok(Execution(task.remote, ActionIgnore))

task_plan(task, read, fs) ==
    IF task.kind = "Put" THEN
        IF ~ fs.ok THEN Err("io")
        ELSE Ok(Execution(task.remote, ActionPut(fs.val, infer_mime(fs.val))))
    ELSE IF task.kind = "Replace" THEN
        IF ~ read.ok \/ ~ fs.ok THEN Err("io")
        ELSE IF Some(Sha256(read.val)) # task.remote_checksum
             THEN Ok(Execution(task.remote,
                               ActionPut(read.val, infer_mime(fs.val))))
             ELSE Ok(Execution(task.remote, ActionIgnore))
    ELSE Ok(Execution(task.remote, ActionDelete))

----------------------------------------------------------------------------
(* api.rs: the client and the storage zone behind it *)

RECURSIVE trim_start_matches(_, _)
trim_start_matches(s, p) ==
    IF p # <<>> /\ StartsWith(s, p)
    THEN trim_start_matches(SubSeq(s, Len(p) + 1, Len(s)), p)
    ELSE s

RECURSIVE trim_end_matches(_, _)
trim_end_matches(s, p) ==
    IF p # <<>> /\ EndsWith(s, p)
    THEN trim_end_matches(SubSeq(s, 1, Len(s) - Len(p)), p)
    ELSE s

\* the service reports a file's SHA-256 in hex; hex::decode_to_slice reads it
Hex(digest) == [hex |-> digest]
hex_decode(h) == h.hex

\* an object as the service stores it after an upload
Object(content) ==
    [content |-> content, checksum |-> Some(Hex(Sha256(content)))]

StorePut(s, key, content) ==
    [k \in DOMAIN s \cup {key} |-> IF k = key THEN Object(content) ELSE s[k]]

StoreDelete(s, key) == [k \in DOMAIN s \ {key} |-> s[k]]

\* a request, by the part of the run that issues it: "lock", "list", "task"
Req(origin, method, path) == <<origin, method, path>>

Count(r) == IF r \in DOMAIN reqs THEN reqs[r] ELSE 0

Logged(log, r) ==
    [x \in DOMAIN log \cup {r} |->
        IF x = r THEN (IF r \in DOMAIN log THEN log[r] ELSE 0) + 1 ELSE log[x]]

\* whether a request or a read may succeed, and whether it may fail, now
Outcomes == {TRUE} \cup (IF faults < MaxFaults THEN {FALSE} ELSE {})

Fault(ok) == faults' = faults + (IF ok THEN 0 ELSE 1)

FileInfo(path, object_name, checksum, is_directory) ==
    [path |-> path, object_name |-> object_name, checksum |-> checksum,
     is_directory |-> is_directory]

FirstSlash(s) ==
    IF \E i \in DOMAIN s : s[i] = Slash[1]
    THEN CHOOSE i \in DOMAIN s : s[i] = Slash[1] /\ \A j \in 1..(i - 1) : s[j] # Slash[1]
    ELSE 0

\* the answer of the service to a listing of path: the files and the
\* directories directly below it (the empty segment of "//" is ignored)
ls_dir(path) ==
    LET dir == trim_start_matches(path, Slash)
        below == {k \in DOMAIN store : StartsWith(k, dir) /\ k # dir}
        rest(k) == SubSeq(k, Len(dir) + 1, Len(k))
        entry(k) ==
            IF FirstSlash(rest(k)) = 0
            THEN FileInfo(GlobalPrefix \o dir, rest(k), store[k].checksum, FALSE)
            ELSE FileInfo(GlobalPrefix \o dir,
                          SubSeq(rest(k), 1, FirstSlash(rest(k)) - 1), None, TRUE)
    IN  {entry(k) : k \in below}

\* concurrent_discover_files: the path under which a directory is listed
subtree(child) ==
    trim_end_matches(trim_start_matches(child.path, GlobalPrefix), Slash)
        \o Slash \o child.object_name \o Slash

skipped_never(path) == FALSE

skipped(path) == \E skip \in ignore : StartsWith(path, skip)

\* list_files: the RemoteMap of the files found
file_key(fi) == trim_start_matches(fi.path, GlobalPrefix) \o fi.object_name

decode_checksum_lost(c) == None

decode_checksum(c) == IF c = None THEN None ELSE Some(hex_decode(c[1]))

FileMeta(c) == [checksum |-> c]

list_files(found) ==
    [k \in {file_key(fi) : fi \in found} |->
        FileMeta(decode_checksum((CHOOSE fi \in found : file_key(fi) = k).checksum))]

Thread(state, item) == [state |-> state, item |-> item]

SpawnedNone == <<>>

SpawnedOneMore == [w \in 1..(concurrency + 1) |-> Thread("recv", None)]

\* for _ in 0..concurrency { scope.spawn(..) }
Spawned == [w \in 1..concurrency |-> Thread("recv", None)]

JoinedWithoutWaiting(threads) == TRUE

JoinedWithTheFirst(threads) ==
    threads = <<>> \/ \E w \in DOMAIN threads : threads[w].state = "exit"

\* thread::scope returns only when every thread spawned in it has
Joined(threads) == \A w \in DOMAIN threads : threads[w].state = "exit"

AfterBodyDropsOnSuccess ==
    IF lock # None /\ result \in {"none", "ok"} THEN "drop" ELSE "done"

\* where execute goes when its body is left: the Lock, if any, is dropped
AfterBody == IF lock # None THEN "drop" ELSE "done"

----------------------------------------------------------------------------
(* lock.rs *)

lock_refuses_never(read_ok) == FALSE

lock_refuses_absent(read_ok) == ~ read_ok /\ ~ force

lock_refuses_unread(read_ok) == ~ force

lock_refuses_forced(read_ok) == read_ok

\* Lock::new: a marker that could be read is an Err unless force is set
lock_refuses(read_ok) == read_ok /\ ~ force

\* Lock::new, first half: client.read_file(lockfile) and the force test.
\* The read succeeds only if the marker exists; it may fail though it does.
LockRead ==
    /\ pc = "lock_read"
    /\ reqs' = Logged(reqs, Req("lock", "GET", LOCKFILE))
    /\ \E ok \in (IF LOCKFILE \in DOMAIN store THEN Outcomes ELSE {FALSE}) :
        /\ faults' = faults + (IF ~ ok /\ LOCKFILE \in DOMAIN store THEN 1 ELSE 0)
        /\ IF lock_refuses(ok)
           THEN pc' = "done" /\ result' = "lock_held"
           ELSE pc' = "lock_write" /\ result' = result
    /\ UNCHANGED <<cfgVars, enumVars, execVars, store, lock, local, remote,
                   tasks, open, held, resolved>>

\* Lock::new, second half: client.put_file(lockfile, now)
LockWrite ==
    /\ pc = "lock_write"
    /\ reqs' = Logged(reqs, Req("lock", "PUT", LOCKFILE))
    /\ \E ok \in Outcomes :
        /\ Fault(ok)
        /\ IF ok
           THEN /\ store' = StorePut(store, LOCKFILE, Now)
                /\ lock' = Some(LOCKFILE)
                /\ held' = TRUE
                /\ pc' = "scan"
                /\ result' = result
           ELSE /\ pc' = "done"
                /\ result' = "lock_write_failed"
                /\ UNCHANGED <<store, lock, held>>
    /\ UNCHANGED <<cfgVars, enumVars, execVars, local, remote, tasks, open,
                   resolved>>

released_failing(r, ok) == IF ok THEN r ELSE "release_failed"

\* Drop for Lock: what execute returns once the marker's delete has answered;
\* Err(e) is printed as a warning and nothing else
released(r, ok) == r

\* Drop for Lock: client.delete_file(lockfile); a failure is only a warning.
\* The delete may fail whatever has failed before it.
LockDrop ==
    /\ pc = "drop"
    /\ reqs' = Logged(reqs, Req("lock", "DELETE", LOCKFILE))
    /\ \E ok \in (IF LOCKFILE \in DOMAIN store THEN BOOLEAN ELSE {FALSE}) :
        /\ Fault(ok)
        /\ store' = IF ok THEN StoreDelete(store, LOCKFILE) ELSE store
        /\ result' = released(result, ok)
    /\ lock' = None
    /\ pc' = "done"
    /\ UNCHANGED <<cfgVars, enumVars, execVars, local, remote, tasks,
                   open, held, resolved>>

----------------------------------------------------------------------------
(* sync/mod.rs and api.rs: SyncJob::execute *)

\* files_by_remote_name(&self.local_path, &self.remote_path)?
Scan ==
    /\ pc = "scan"
    /\ \E ok \in Outcomes :
        /\ Fault(ok)
        /\ IF ok
           THEN /\ local' = files_by_remote_name(disk)
                /\ pc' = "list"
                /\ result' = result
           ELSE /\ pc' = AfterBody
                /\ result' = "scan_failed"
                /\ local' = local
    /\ UNCHANGED <<cfgVars, enumVars, execVars, store, lock, remote, tasks,
                   open, reqs, held, resolved>>

ListStartAtZero ==
    /\ pc = "list"
    /\ dir_work' = <<RemotePath>>
    /\ dir_result' = <<>>
    /\ responses_needed' = 0
    /\ files' = {}
    /\ lister' = Spawned
    /\ open' = open \cup {"post_work"}
    /\ pc' = "list_wait"
    /\ UNCHANGED <<cfgVars, execVars, store, lock, result, local, remote,
                   tasks, reqs, faults, held, resolved>>

\* concurrent_discover_files up to the loop: the root is posted, the
\* workers are spawned, responses_needed = 1
ListStart ==
    /\ pc = "list"
    /\ dir_work' = <<RemotePath>>
    /\ dir_result' = <<>>
    /\ responses_needed' = 1
    /\ files' = {}
    /\ lister' = Spawned
    /\ open' = open \cup {"post_work"}
    /\ pc' = "list_wait"
    /\ UNCHANGED <<cfgVars, execVars, store, lock, result, local, remote,
                   tasks, reqs, faults, held, resolved>>

\* a worker of the enumeration: receive_work.recv() returns a path
ListerRecv(w) ==
    /\ pc \in {"list_wait", "list_join"}
    /\ lister[w].state = "recv"
    /\ dir_work # <<>>
    /\ lister' = [lister EXCEPT ![w] = Thread("busy", Some(Head(dir_work)))]
    /\ dir_work' = Tail(dir_work)
    /\ UNCHANGED <<cfgVars, execVars, store, pc, lock, result, local, remote,
                   tasks, dir_result, responses_needed, files, open, reqs,
                   faults, held, resolved>>

\* a worker of the enumeration: self.ls_dir(path), and the result is sent
ListerList(w) ==
    /\ pc \in {"list_wait", "list_join"}
    /\ lister[w].state = "busy"
    /\ LET path == lister[w].item[1] IN
       /\ reqs' = Logged(reqs, Req("list", "GET", path))
       /\ \E ok \in Outcomes :
           /\ Fault(ok)
           /\ dir_result' =
                Append(dir_result, IF ok THEN Ok(ls_dir(path)) ELSE Err("list"))
    /\ lister' = [lister EXCEPT ![w] = Thread("recv", None)]
    /\ UNCHANGED <<cfgVars, execVars, store, pc, lock, result, local, remote,
                   tasks, dir_work, responses_needed, files, open, held, resolved>>

\* a worker of the enumeration: recv() fails, the channel is empty and closed
ListerExit(w) ==
    /\ pc \in {"list_wait", "list_join"}
    /\ lister[w].state = "recv"
    /\ dir_work = <<>>
    /\ "post_work" \notin open
    /\ lister' = [lister EXCEPT ![w] = Thread("exit", None)]
    /\ UNCHANGED <<cfgVars, execVars, store, pc, lock, result, local, remote,
                   tasks, dir_work, dir_result, responses_needed, files, open,
                   reqs, faults, held, resolved>>

\* the coordinator of the enumeration takes one result: an error ends the
\* closure (post_work is dropped with it); a listing is walked, directories
\* that are not skipped are posted, files are kept
ListCollect ==
    /\ pc = "list_wait"
    /\ responses_needed > 0
    /\ dir_result # <<>>
    /\ LET new == Head(dir_result) IN
       IF ~ new.ok
       THEN /\ result' = "list_failed"
            /\ open' = open \ {"post_work"}
            /\ pc' = "list_join"
            /\ dir_result' = Tail(dir_result)
            /\ UNCHANGED <<dir_work, responses_needed, files>>
       ELSE LET dirs == {subtree(c) : c \in {c \in new.val : c.is_directory}}
                todo == {d \in dirs : ~ skipped(d)}
            IN  /\ \E order \in Orderings(todo) : dir_work' = dir_work \o order
                /\ responses_needed' = responses_needed - 1 + Cardinality(todo)
                /\ files' = files \cup {c \in new.val : ~ c.is_directory}
                /\ dir_result' = Tail(dir_result)
                /\ UNCHANGED <<result, open, pc>>
    /\ UNCHANGED <<cfgVars, execVars, store, lock, local, remote, tasks,
                   lister, reqs, faults, held, resolved>>

ListDoneKeepsOpen ==
    /\ pc = "list_wait"
    /\ responses_needed = 0
    /\ pc' = "list_join"
    /\ UNCHANGED <<cfgVars, enumVars, execVars, store, lock, result, local,
                   remote, tasks, reqs, faults, held, resolved, open>>

\* responses_needed = 0: drop(post_work), the closure returns the files
ListDone ==
    /\ pc = "list_wait"
    /\ responses_needed = 0
    /\ open' = open \ {"post_work"}
    /\ pc' = "list_join"
    /\ UNCHANGED <<cfgVars, enumVars, execVars, store, lock, result, local,
                   remote, tasks, reqs, faults, held, resolved>>

ListJoinPartial ==
    /\ pc = "list_join"
    /\ Joined(lister)
    /\ remote' = list_files(files) /\ pc' = "plan"
    /\ UNCHANGED <<cfgVars, enumVars, execVars, store, lock, result, local,
                   tasks, open, reqs, faults, held, resolved>>

\* thread::scope returns once every worker has; list_files builds the map
ListJoin ==
    /\ pc = "list_join"
    /\ Joined(lister)
    /\ IF result = "none"
       THEN remote' = list_files(files) /\ pc' = "plan"
       ELSE remote' = remote /\ pc' = AfterBody
    /\ UNCHANGED <<cfgVars, enumVars, execVars, store, lock, result, local,
                   tasks, open, reqs, faults, held, resolved>>

\* plan_sync, then the closure of execute up to its loop: every task is
\* sent, the workers are spawned
PlanAndSubmit ==
    /\ pc = "plan"
    /\ \E iter \in Orderings(must_remove(local, remote, ignore)) :
        /\ tasks' = plan_sync(local, remote, ignore, iter)
        /\ task_work' = tasks'
    /\ task_result' = <<>>
    /\ collected' = 0
    /\ worker' = Spawned
    /\ open' = open \cup {"send_work", "receive_result"}
    /\ pc' = "collect"
    /\ UNCHANGED <<cfgVars, enumVars, store, lock, result, local, remote, reqs,
                   faults, held, resolved>>

WorkerRecvLast(w) ==
    /\ pc \in {"collect", "exec_join"}
    /\ worker[w].state = "recv"
    /\ task_work # <<>>
    /\ worker' = [worker EXCEPT
                    ![w] = Thread("busy", Some(task_work[Len(task_work)]))]
    /\ task_work' = SubSeq(task_work, 1, Len(task_work) - 1)
    /\ UNCHANGED <<cfgVars, enumVars, store, pc, lock, result, local, remote,
                   tasks, task_result, collected, open, reqs, faults, held, resolved>>

\* a worker of execute: receive_work.recv() returns a task
WorkerRecv(w) ==
    /\ pc \in {"collect", "exec_join"}
    /\ worker[w].state = "recv"
    /\ task_work # <<>>
    /\ worker' = [worker EXCEPT ![w] = Thread("busy", Some(Head(task_work)))]
    /\ task_work' = Tail(task_work)
    /\ UNCHANGED <<cfgVars, enumVars, store, pc, lock, result, local, remote,
                   tasks, task_result, collected, open, reqs, faults, held, resolved>>

event_always_put(action) == "put"

\* what Task::execute reports for an action
event(action) ==
    IF action.kind = "Put" THEN "put"
    ELSE IF action.kind = "Ignore" THEN "unchanged"
    ELSE "delete"

request_in_dry_run(execution) ==
    IF execution.action.kind = "Put"
    THEN Some(Req("task", "PUT", execution.remote))
    ELSE IF execution.action.kind = "Delete" /\ execution.remote # LOCKFILE
         THEN Some(Req("task", "DELETE", execution.remote))
    ELSE None

request_unguarded(execution) ==
    IF dry_run \/ execution.action.kind = "Ignore" THEN None
    ELSE IF execution.action.kind = "Put"
         THEN Some(Req("task", "PUT", execution.remote))
         ELSE Some(Req("task", "DELETE", execution.remote))

\* the request Task::execute issues for an Execution, if any
request(execution) ==
    IF dry_run THEN None
    ELSE IF execution.action.kind = "Put"
         THEN Some(Req("task", "PUT", execution.remote))
    ELSE IF execution.action.kind = "Delete" /\ execution.remote # LOCKFILE
         THEN Some(Req("task", "DELETE", execution.remote))
    ELSE None

\* the storage zone after a successful request
applied(s, req, execution) ==
    IF req[2] = "PUT" THEN StorePut(s, req[3], execution.action.content)
    ELSE StoreDelete(s, req[3])

after_send_goes_on(delivered) == "recv"

\* send_result.send(r)?: the worker loops if the outcome was delivered and
\* returns the error if the receiver is gone
after_send(delivered) == IF delivered THEN "recv" ELSE "exit"

\* a worker of execute: task.execute(..), and the result is sent; the send
\* fails, and the worker returns, once the receiver is dropped
WorkerExecute(w) ==
    /\ pc \in {"collect", "exec_join"}
    /\ worker[w].state = "busy"
    /\ LET task == worker[w].item[1]
           reads == task.kind # "Delete"
       IN
       \E readOk \in (IF reads THEN Outcomes ELSE {TRUE}) :
         LET fs == IF readOk /\ reads THEN Ok(disk[task.local]) ELSE Err("io")
             planned == task_plan(task, fs, fs)
             req == IF planned.ok THEN request(planned.val) ELSE None
         IN
         \E reqOk \in (IF req = None \/ ~ readOk THEN {TRUE}
                       ELSE IF req[1][2] = "DELETE" /\ req[1][3] \notin DOMAIN store
                            THEN {FALSE}
                       ELSE Outcomes) :
           LET r == IF ~ planned.ok THEN Err("io")
                    ELSE IF ~ reqOk THEN Err("request")
                    ELSE Ok(<<planned.val.remote, event(planned.val.action)>>)
               unforced == req # None /\ req[1][2] = "DELETE"
                           /\ req[1][3] \notin DOMAIN store
           IN
           /\ faults' = faults + (IF readOk /\ (reqOk \/ unforced) THEN 0 ELSE 1)
           /\ reqs' = IF req = None THEN reqs ELSE Logged(reqs, req[1])
           /\ store' = IF req # None /\ reqOk
                       THEN applied(store, req[1], planned.val) ELSE store
           /\ task_result' = IF "receive_result" \in open
                              THEN Append(task_result, r) ELSE task_result
           /\ worker' = [worker EXCEPT
                ![w] = Thread(after_send("receive_result" \in open), None)]
    /\ UNCHANGED <<cfgVars, enumVars, pc, lock, result, local, remote, tasks,
                   task_work, collected, open, held, resolved>>

\* a worker of execute: recv() fails, the channel is empty and closed
WorkerExit(w) ==
    /\ pc \in {"collect", "exec_join"}
    /\ worker[w].state = "recv"
    /\ task_work = <<>>
    /\ "send_work" \notin open
    /\ worker' = [worker EXCEPT ![w] = Thread("exit", None)]
    /\ UNCHANGED <<cfgVars, enumVars, store, pc, lock, result, local, remote,
                   tasks, task_work, task_result, collected, open, reqs,
                   faults, held, resolved>>

CollectSwallowsErrors ==
    /\ pc = "collect"
    /\ collected < Len(tasks)
    /\ task_result # <<>>
    /\ task_result' = Tail(task_result)
    /\ collected' = collected + 1
    /\ UNCHANGED <<cfgVars, enumVars, store, lock, local, remote, tasks,
                   task_work, worker, reqs, faults, held, resolved, result,
                   open, pc>>

\* the coordinator of execute takes one outcome; an error ends the closure,
\* and what it had captured (both ends of both channels) is dropped
Collect ==
    /\ pc = "collect"
    /\ collected < Len(tasks)
    /\ task_result # <<>>
    /\ task_result' = Tail(task_result)
    /\ IF Head(task_result).ok
       THEN /\ collected' = collected + 1
            /\ UNCHANGED <<result, open, pc>>
       ELSE /\ result' = "task_failed"
            /\ open' = open \ {"send_work", "receive_result"}
            /\ pc' = "exec_join"
            /\ collected' = collected
    /\ UNCHANGED <<cfgVars, enumVars, store, lock, local, remote, tasks,
                   task_work, worker, reqs, faults, held, resolved>>

\* every outcome is in: drop(send_work), Ok(()), the closure ends
CollectDone ==
    /\ pc = "collect"
    /\ collected = Len(tasks)
    /\ result' = "ok"
    /\ open' = open \ {"send_work", "receive_result"}
    /\ pc' = "exec_join"
    /\ UNCHANGED <<cfgVars, enumVars, execVars, store, lock, local, remote,
                   tasks, reqs, faults, held, resolved>>

\* thread::scope returns once every worker has
ExecJoin ==
    /\ pc = "exec_join"
    /\ Joined(worker)
    /\ pc' = AfterBody
    /\ UNCHANGED <<cfgVars, enumVars, execVars, store, lock, result, local,
                   remote, tasks, open, reqs, faults, held, resolved>>

\* a run: a local tree, a storage zone (with or without a marker left by an
\* earlier run) and the arguments of the command line
Init ==
    /\ \E L \in SUBSET RunKeys, R \in SUBSET RunKeys :
        /\ Cardinality(L \cup R) <= MaxRunFiles
        /\ \E own \in SUBSET {LOCKFILE} :
             disk \in [{LocalRoot \o k : k \in L \cup own} -> {"A"}]
        /\ \E c \in [R -> Contents], marker \in SUBSET {LOCKFILE} :
             /\ \A k \in R \ L : c[k] = "B"
             /\ store = [k \in R \cup marker |->
                           IF k \in R THEN Object(c[k]) ELSE Object(OldTimestamp)]
    /\ ignore \in RunIgnores
    /\ concurrency \in 0..MaxConcurrency
    /\ dry_run \in BOOLEAN
    /\ force \in BOOLEAN
    /\ store0 = store
    /\ held = FALSE
    /\ pc = IF dry_run THEN "scan" ELSE "lock_read"
    /\ lock = None /\ result = "none"
    /\ local = <<>> /\ remote = <<>> /\ tasks = <<>>
    /\ dir_work = <<>> /\ dir_result = <<>> /\ responses_needed = 0
    /\ files = {} /\ lister = <<>>
    /\ task_work = <<>> /\ task_result = <<>> /\ collected = 0
    /\ worker = <<>> /\ open = {} /\ reqs = <<>> /\ faults = 0
    /\ resolved = None
    /\ runs = <<>>

Next ==
    \/ LockRead \/ LockWrite \/ LockDrop
    \/ Scan \/ ListStart \/ ListCollect \/ ListDone \/ ListJoin
    \/ \E w \in DOMAIN lister : ListerRecv(w) \/ ListerList(w) \/ ListerExit(w)
    \/ PlanAndSubmit \/ Collect \/ CollectDone \/ ExecJoin
    \/ \E w \in DOMAIN worker : WorkerRecv(w) \/ WorkerExecute(w) \/ WorkerExit(w)

Spec == Init /\ [][Next]_vars

----------------------------------------------------------------------------
(* The planner and the resolver on their own: SpecPlan draws                *)
(* (local, remote, ignore) from bounded sets, plans, and resolves tasks.    *)

Checksums == {None} \cup {Some(d) : d \in Digests}

InitPlan ==
    /\ \E S \in {S \in SUBSET PlanKeys : Cardinality(S) <= MaxPlanFiles} :
       \E L \in SUBSET S, R \in SUBSET S :
         /\ L \cup R = S
         /\ disk \in [{LocalRoot \o k : k \in L} -> {"A"}]
         /\ remote \in [R -> {FileMeta(c) : c \in Checksums}]
    /\ ignore \in SUBSET PlanPrefixes
    /\ pc = "plan"
    /\ local = files_by_remote_name(disk)
    /\ store = <<>> /\ concurrency = 0 /\ dry_run = TRUE /\ force = FALSE
    /\ store0 = <<>> /\ held = FALSE
    /\ lock = None /\ result = "none" /\ tasks = <<>>
    /\ dir_work = <<>> /\ dir_result = <<>> /\ responses_needed = 0
    /\ files = {} /\ lister = <<>>
    /\ task_work = <<>> /\ task_result = <<>> /\ collected = 0
    /\ worker = <<>> /\ open = {} /\ reqs = <<>> /\ faults = 0
    /\ resolved = None
    /\ runs = <<>>

PlanStep ==
    /\ pc = "plan"
    /\ \E iter \in Orderings(must_remove(local, remote, ignore)) :
          tasks' = plan_sync(local, remote, ignore, iter)
    /\ pc' = "resolve"
    /\ UNCHANGED <<cfgVars, enumVars, execVars, store, lock, result, local,
                   remote, open, reqs, faults, held, resolved>>

\* what a content reader may return for a path, and what the file system does
ReadResults == {Ok(c) : c \in Contents} \cup {Err("io")}
FsResults(path) ==
    (IF path \in DOMAIN disk THEN {Ok(disk[path])} ELSE {}) \cup {Err("io")}

ResolveStep ==
    /\ pc = "resolve"
    /\ \E i \in 1..Len(tasks) :
       LET path == IF tasks[i].kind = "Delete" THEN <<>> ELSE tasks[i].local IN
       \E read \in ReadResults, fs \in FsResults(path) :
          resolved' = Some([task |-> tasks[i], read |-> read, fs |-> fs,
                            out |-> task_plan(tasks[i], read, fs)])
    /\ pc' = "resolved"
    /\ UNCHANGED <<cfgVars, enumVars, execVars, store, lock, result, local,
                   remote, tasks, open, reqs, faults, held>>

NextPlan == PlanStep \/ ResolveStep

SpecPlan == InitPlan /\ [][NextPlan]_vars

----------------------------------------------------------------------------
(* Properties of the planner and the resolver (SpecPlan) *)

Planned == pc \in {"resolve", "resolved"}

Protected(k) == \E prefix \in ignore : StartsWith(k, prefix)

TasksFor(k) == {i \in DOMAIN tasks : tasks[i].remote = k}

KindsPlanned == {tasks[i].kind : i \in DOMAIN tasks}

\* C2: plan_sync emits exactly one task per key of
\* local.keys() + (remote.keys() - local.keys() - protected) and no other
\* task; the task is Put iff the key is absent from remote, Replace with the
\* remote's checksum iff the key is in both maps, Delete iff the key is only
\* in remote and starts with no protected prefix.
C2_OneTaskPerKey ==
    Planned =>
      LET expected == DOMAIN local \cup
                      {k \in DOMAIN remote \ DOMAIN local : ~ Protected(k)}
      IN  /\ \A k \in expected : Cardinality(TasksFor(k)) = 1
          /\ \A i \in DOMAIN tasks :
              LET t == tasks[i] IN
              /\ t.remote \in expected
              /\ t.kind = "Put" <=>
                    (t.remote \in DOMAIN local /\ t.remote \notin DOMAIN remote)
              /\ t.kind = "Replace" <=>
                    (t.remote \in DOMAIN local /\ t.remote \in DOMAIN remote)
              /\ t.kind = "Replace" =>
                    /\ t.remote_checksum = remote[t.remote].checksum
                    /\ t.local = local[t.remote]
              /\ t.kind = "Put" => t.local = local[t.remote]
              /\ t.kind = "Delete" <=>
                    (t.remote \in DOMAIN remote \ DOMAIN local
                     /\ ~ Protected(t.remote))

C2_Witness ==
    /\ Planned
    /\ {"Replace", "Delete"} \subseteq KindsPlanned
    /\ \E k \in DOMAIN remote \ DOMAIN local : Protected(k)

\* C3: in the Put/Replace segment every key not ending in .html or .htm
\* precedes every key that does, and within each of the two groups the keys
\* ascend lexicographically.
C3_HtmlLastSorted ==
    Planned =>
      \A i, j \in DOMAIN tasks :
        (i < j /\ tasks[i].kind # "Delete" /\ tasks[j].kind # "Delete") =>
          LET a == tasks[i].remote
              b == tasks[j].remote
              html(k) == EndsWith(k, DotHtml) \/ EndsWith(k, DotHtm)
          IN  \/ ~ html(a) /\ html(b)
              \/ html(a) = html(b) /\ StrLess(a, b)

C3_Witness ==
    /\ Planned
    /\ {A_HTML, B_HTM, Z_CSS} \subseteq DOMAIN local
    /\ tasks[1].remote = Z_CSS
    /\ tasks[2].remote = A_HTML
    /\ tasks[3].remote = B_HTM

\* C4: every Delete task comes after every Put and Replace task.
C4_DeletesLast ==
    Planned =>
      \A i, j \in DOMAIN tasks :
        (tasks[i].kind = "Delete" /\ tasks[j].kind \in {"Put", "Replace"})
          => j < i

C4_Witness ==
    /\ Planned
    /\ {"Put", "Delete"} \subseteq KindsPlanned
    /\ Cardinality({i \in DOMAIN tasks : tasks[i].kind = "Delete"}) >= 2

Resolved == resolved # None
TheResolved == resolved[1]

\* C6: resolving a Replace task whose reader returns bytes: without a remote
\* checksum the result is Upload of the bytes read; with remote checksum
\* Some(d) the result is Skip iff the SHA-256 digest of the bytes read is d,
\* and Upload of the bytes read otherwise.
C6_ChecksumGate ==
    (Resolved /\ TheResolved.task.kind = "Replace"
              /\ TheResolved.read.ok /\ TheResolved.fs.ok) =>
      LET r == TheResolved
          bytes == r.read.val
          sum == r.task.remote_checksum
      IN  /\ r.out.ok
          /\ r.out.val.remote = r.task.remote
          /\ sum = None =>
               r.out.val.action = ActionPut(bytes, None)
          /\ sum # None =>
               /\ r.out.val.action = ActionIgnore <=> sum[1] = Sha256(bytes)
               /\ r.out.val.action # ActionIgnore =>
                     r.out.val.action = ActionPut(bytes, None)

C6_Witness ==
    /\ Resolved
    /\ TheResolved.task.kind = "Replace"
    /\ TheResolved.task.remote_checksum = Some(Sha256("B"))
    /\ TheResolved.read = Ok("B")
    /\ TheResolved.fs = Ok("A")
    /\ TheResolved.out = Ok(Execution(TheResolved.task.remote, ActionIgnore))

\* the remote already mirrors the local tree
Synced ==
    /\ DOMAIN remote = DOMAIN local
    /\ \A k \in DOMAIN local :
          remote[k].checksum = Some(Sha256(disk[local[k]]))

\* C7: when the RemoteMap has exactly the LocalMap's keys and every remote
\* checksum is the digest of the local content, plan_sync yields only Replace
\* tasks, one per key, and resolving any of them with the local content
\* yields Skip.
C7_Idempotent ==
    (Planned /\ Synced) =>
      /\ Len(tasks) = Cardinality(DOMAIN local)
      /\ \A i \in DOMAIN tasks : tasks[i].kind = "Replace"
      /\ (Resolved /\ TheResolved.fs.ok
                   /\ TheResolved.read = TheResolved.fs) =>
            TheResolved.out =
                Ok(Execution(TheResolved.task.remote, ActionIgnore))

C7_Witness ==
    /\ Synced
    /\ Cardinality(DOMAIN local) >= 2
    /\ Resolved
    /\ TheResolved.read = TheResolved.fs
    /\ TheResolved.out.ok
    /\ TheResolved.out.val.action = ActionIgnore

----------------------------------------------------------------------------
(* Properties of a run (Spec) *)

Returned(r) == pc = "done" /\ result = r

\* the keys of the local tree: the keys of the LocalMap once it is built
DiskKeys == {remote_name(p) : p \in DOMAIN disk}

LockGet == Req("lock", "GET", LOCKFILE)
LockPut == Req("lock", "PUT", LOCKFILE)
LockDelete == Req("lock", "DELETE", LOCKFILE)
TaskPutReq(k) == Req("task", "PUT", k)
TaskDeleteReq(k) == Req("task", "DELETE", k)

\* C1: after a non-dry run returned success with every request succeeding,
\* every LocalMap key holds the local file's bytes, every remote key absent
\* locally and under no protected prefix is gone, and every remote-only
\* object under a protected prefix is unchanged. (The second and third part
\* are stated for the objects other than the lock marker.)
C1_Mirror ==
    (~ dry_run /\ Returned("ok") /\ faults = 0) =>
      /\ \A k \in DOMAIN local :
            k \in DOMAIN store /\ store[k].content = disk[local[k]]
      /\ \A k \in (DOMAIN store0 \ DOMAIN local) \ {LOCKFILE} :
            IF Protected(k)
            THEN k \in DOMAIN store /\ store[k] = store0[k]
            ELSE k \notin DOMAIN store

\* the same, for the LocalMap keys other than the name of the lock object
C1_MirrorOtherKeys ==
    (~ dry_run /\ Returned("ok") /\ faults = 0) =>
      /\ \A k \in DOMAIN local \ {LOCKFILE} :
            k \in DOMAIN store /\ store[k].content = disk[local[k]]
      /\ \A k \in (DOMAIN store0 \ DOMAIN local) \ {LOCKFILE} :
            IF Protected(k)
            THEN k \in DOMAIN store /\ store[k] = store0[k]
            ELSE k \notin DOMAIN store

PlannedDelete(k) ==
    \E i \in DOMAIN tasks : tasks[i].kind = "Delete" /\ tasks[i].remote = k

\* the remote-only keys: in the storage zone when the run starts, or listed
\* by the run, and not in the local tree
RemoteOnly == (DOMAIN store0 \cup DOMAIN remote) \ DiskKeys

C8_LockHeldLeavesStore ==
    (~ dry_run /\ ~ force /\ LOCKFILE \in DOMAIN store0
       /\ pc # "lock_read" /\ faults = 0) =>
      /\ Returned("lock_held")
      /\ store = store0
      /\ lock = None /\ ~ held
      /\ DOMAIN reqs = {LockGet} /\ reqs[LockGet] = 1

C8_Witness ==
    /\ ~ dry_run /\ ~ force
    /\ LOCKFILE \in DOMAIN store0 /\ DOMAIN store0 # {LOCKFILE}
    /\ DOMAIN disk # {}
    /\ concurrency > 0
    /\ Returned("lock_held")
    /\ reqs[LockGet] = 1

\* C9: with force = true the acquisition never fails with the lock-held
\* error; it issues the marker write whether or not a marker exists, and when
\* the write succeeds the marker holds the fresh timestamp and the run holds
\* the Lock.
C9_ForceOverwrites ==
    (~ dry_run /\ force) =>
      /\ result # "lock_held"
      /\ pc \notin {"lock_read", "lock_write"} =>
            /\ Count(LockPut) = 1
            /\ held <=> result # "lock_write_failed"
      /\ pc = "scan" =>
            /\ lock = Some(LOCKFILE)
            /\ LOCKFILE \in DOMAIN store
            /\ store[LOCKFILE].content = Now

C9_Witness ==
    /\ ~ dry_run /\ force
    /\ LOCKFILE \in DOMAIN store0 /\ store0[LOCKFILE].content = OldTimestamp
    /\ Count(LockGet) = 1 /\ faults = 0
    /\ pc = "scan" /\ held
    /\ store[LOCKFILE].content = Now

\* deletes of the marker object issued so far, by the Lock and by tasks
MarkerDeletes == Count(LockDelete) + Count(TaskDeleteReq(LOCKFILE))

\* C10: a run that reached Held issues exactly one delete of the marker
\* object, and has issued it when execute returns, whichever way it returns;
\* a run that never reached Held issues none.
C10_ReleasedOnce ==
    /\ MarkerDeletes <= 1
    /\ (pc = "done" /\ held) => MarkerDeletes = 1
    /\ ~ held => MarkerDeletes = 0

C10_Witness ==
    /\ held /\ Returned("task_failed") /\ MarkerDeletes = 1

C10_WitnessOk == held /\ Returned("ok") /\ MarkerDeletes = 1
C10_WitnessScan == held /\ Returned("scan_failed") /\ MarkerDeletes = 1
C10_WitnessList == held /\ Returned("list_failed") /\ MarkerDeletes = 1

\* C11: a marker delete that fails at release changes neither what the run
\* returns (success stays success, an error stays that error) nor the
\* store: the marker stays, and the run ends.
C11_ReleaseFailureIsWarning ==
    [][(pc = "drop" /\ faults' # faults) =>
          /\ result' = result
          /\ store' = store
          /\ LOCKFILE \in DOMAIN store'
          /\ pc' = "done"]_vars

\* a run ended with the marker still there after a failed release: once
\* with every task done, once after a task had failed
C11_Witness ==
    /\ pc = "done" /\ held /\ lock = None
    /\ LOCKFILE \in DOMAIN store
    /\ result = "ok"
    /\ Len(tasks) > 0

C11_WitnessFailed ==
    /\ pc = "done" /\ held /\ lock = None
    /\ LOCKFILE \in DOMAIN store
    /\ result = "task_failed"

\* C12: in dry-run mode the run sends listing requests only: it never
\* reads, writes or deletes the marker, sends no PUT and no DELETE for any
\* object, never holds a Lock, and the store stays what it was.
C12_DryRunFrame ==
    dry_run =>
      /\ store = store0
      /\ \A r \in DOMAIN reqs : r[1] = "list" /\ r[2] = "GET"
      /\ lock = None /\ ~ held

\* a dry run that resolved and reported an upload and a delete, and returned
C12_Witness ==
    /\ dry_run /\ Returned("ok")
    /\ {"Delete"} \subseteq KindsPlanned
    /\ KindsPlanned \cap {"Put", "Replace"} # {}
    /\ \E k \in DOMAIN local : k \notin DOMAIN store \/ store[k].content # "A"
    /\ collected = Len(tasks)

\* a task that is submitted and not yet through Task::execute
Pending(t) ==
    \/ \E i \in DOMAIN task_work : task_work[i] = t
    \/ \E w \in DOMAIN worker : worker[w] = Thread("busy", Some(t))

\* the upload of key k has been applied to the store by a task of this run
Uploaded(k) ==
    /\ Count(TaskPutReq(k)) >= 1
    /\ k \in DOMAIN store /\ store[k] = Object(disk[LocalRoot \o k])
    /\ (k \in DOMAIN store0 => store0[k] # store[k])

\* C13: in a non-dry run no upload of a key ending in .html or .htm is
\* applied to the store while an upload of another key is still to be made.
C13_HtmlAtEnd ==
    ~ dry_run =>
      \A i, j \in DOMAIN tasks :
        (/\ tasks[i].kind = "Put" /\ ~ is_html(tasks[i].remote)
         /\ tasks[j].kind \in {"Put", "Replace"} /\ is_html(tasks[j].remote)
         /\ Pending(tasks[i]))
        => ~ Uploaded(tasks[j].remote)

\* with one worker the order of the plan is the order of the uploads
C13_HtmlAtEndOneWorker == concurrency = 1 => C13_HtmlAtEnd

\* requests sent by tasks so far
TaskRequests == {r \in DOMAIN reqs : r[1] = "task"}

\* C14: a listing that failed is taken by the coordinator before the
\* enumeration can end, and list_files then returns that error: there is no
\* RemoteMap, no plan, no worker of execute and no request of a task; only
\* the marker may differ in the store, and a Lock that was held is released.
C14_ListingFailureAborts ==
    /\ (\E i \in DOMAIN dir_result : ~ dir_result[i].ok) =>
          \/ pc = "list_wait" /\ responses_needed > 0 /\ result = "none"
          \/ result = "list_failed"
    /\ result = "list_failed" =>
          /\ pc \in {"list_join", "drop", "done"}
          /\ remote = <<>> /\ tasks = <<>> /\ worker = <<>>
          /\ TaskRequests = {}
          /\ StoreDelete(store, LOCKFILE) = StoreDelete(store0, LOCKFILE)
    /\ Returned("list_failed") =>
          /\ lock = None
          /\ held => Count(LockDelete) = 1

\* the listing of a directory below the root failed after the root's files
\* had been found, and the run has returned
C14_Witness ==
    /\ Returned("list_failed") /\ held
    /\ files # {}
    /\ Cardinality({r \in DOMAIN reqs : r[1] = "list"}) >= 2

\* the object under key k in store s, if any
At(s, k) == IF k \in DOMAIN s THEN Some(s[k]) ELSE None

\* every request of a task is the one request of a task of the plan
OnlyPlannedRequests ==
    \A r \in TaskRequests :
      /\ reqs[r] = 1
      /\ \E i \in DOMAIN tasks :
           /\ tasks[i].remote = r[3]
           /\ r[2] = (IF tasks[i].kind = "Delete" THEN "DELETE" ELSE "PUT")

\* a failed outcome is taken by the coordinator, which then returns it;
\* success is returned only if no upload failed
C15_FailureState ==
    /\ (\E i \in DOMAIN task_result : ~ task_result[i].ok) =>
          \/ pc = "collect" /\ collected < Len(tasks) /\ result = "none"
          \/ result = "task_failed"
    /\ result = "task_failed" => pc \in {"exec_join", "drop", "done"}
    /\ (Returned("ok") /\ ~ dry_run) =>
          \A i \in DOMAIN tasks :
            (tasks[i].kind = "Put" /\ tasks[i].remote # LOCKFILE)
              => /\ Count(TaskPutReq(tasks[i].remote)) = 1
                 /\ At(store, tasks[i].remote) = Some(Object(disk[tasks[i].local]))
    /\ OnlyPlannedRequests

\* the error stays the result, and what a task has changed in the store is
\* never changed again
C15_FailureStep ==
    /\ result = "task_failed" => result' = "task_failed"
    /\ \A k \in (DOMAIN store \cup DOMAIN store0) \ {LOCKFILE} :
         At(store, k) # At(store0, k) => At(store', k) = At(store, k)

\* C15: if a task fails, execute returns an error, the first failed outcome
\* the coordinator collects; what tasks have applied stays applied, and the
\* only requests of tasks are those of the plan, each at most once.
C15_TaskFailureNoRollback == [] C15_FailureState /\ [][C15_FailureStep]_vars

\* a run that returned a task's error with another task's upload or delete
\* in the store
C15_Witness ==
    /\ Returned("task_failed")
    /\ \E k \in (DOMAIN store \cup DOMAIN store0) \ {LOCKFILE} :
         At(store, k) # At(store0, k)

\* where the submitted tasks are: in the queue, with a worker, or as an
\* outcome the coordinator has not taken yet
QueuedKeys == {task_work[i].remote : i \in DOMAIN task_work}
BusyKeys == {worker[w].item[1].remote : w \in {w \in DOMAIN worker : worker[w].state = "busy"}}
OutcomeKeys == {task_result[i].val[1] : i \in {i \in DOMAIN task_result : task_result[i].ok}}
Busy == Cardinality({w \in DOMAIN worker : worker[w].state = "busy"})

\* the outcome Task::execute reports for a task of the plan
Expected(t) ==
    IF t.kind = "Put" THEN "put"
    ELSE IF t.kind = "Delete" THEN "delete"
    ELSE IF Some(Sha256(disk[t.local])) # t.remote_checksum THEN "put"
    ELSE "unchanged"

\* C16: while no task has failed, every submitted task is in exactly one
\* place (queue, one worker, outcome queue, or collected), its request is
\* sent at most once, its outcome is (remote, put | unchanged | delete) as
\* its action says, and success is returned only with every outcome
\* collected.
C16_EveryTaskOnce ==
    (pc \in {"collect", "exec_join", "drop", "done"} /\ result \in {"none", "ok"}
       /\ \A i \in DOMAIN task_result : task_result[i].ok) =>
      /\ Len(task_work) + Busy + Len(task_result) + collected = Len(tasks)
      /\ Cardinality(QueuedKeys) = Len(task_work)
      /\ Cardinality(BusyKeys) = Busy
      /\ Cardinality(OutcomeKeys) = Len(task_result)
      /\ QueuedKeys \cap BusyKeys = {}
      /\ QueuedKeys \cap OutcomeKeys = {}
      /\ BusyKeys \cap OutcomeKeys = {}
      /\ \A i \in DOMAIN task_result :
           \E j \in DOMAIN tasks :
             task_result[i].val = <<tasks[j].remote, Expected(tasks[j])>>
      /\ \A r \in TaskRequests : reqs[r] = 1
      /\ \A j \in DOMAIN tasks :
           (tasks[j].remote \in QueuedKeys \cup BusyKeys) =>
              \A r \in TaskRequests : r[3] # tasks[j].remote
      /\ result = "ok" =>
           /\ collected = Len(tasks)
           /\ task_work = <<>> /\ Busy = 0 /\ task_result = <<>>

\* two workers, at least two tasks, all collected, success returned
C16_Witness ==
    /\ Returned("ok") /\ concurrency = 2
    /\ Len(tasks) >= 2 /\ collected = Len(tasks)
    /\ {"Delete"} \subseteq KindsPlanned

\* the Delete tasks of the plan
DeleteTasks == {j \in DOMAIN tasks : tasks[j].kind = "Delete"}

\* a task of the plan has been through Task::execute
Executed(j) ==
    /\ pc \in {"collect", "exec_join", "drop", "done"}
    /\ tasks[j].remote \notin QueuedKeys \cup BusyKeys

\* C17: no task ever sends a DELETE for the lock object, in any mode; every
\* other Delete task sends exactly one DELETE for its remote name when it is
\* executed in a non-dry run, and none before or in a dry run.
C17_LockNeverDeletedByTask ==
    /\ Count(TaskDeleteReq(LOCKFILE)) = 0
    /\ pc \in {"collect", "exec_join", "drop", "done"} =>
         \A j \in DeleteTasks :
           tasks[j].remote # LOCKFILE =>
             Count(TaskDeleteReq(tasks[j].remote)) =
               (IF ~ dry_run /\ Executed(j) THEN 1 ELSE 0)

\* a non-dry run executed a Delete task for the marker and one for another
\* key, and returned
C17_Witness ==
    /\ ~ dry_run /\ Returned("ok")
    /\ \E j \in DeleteTasks : tasks[j].remote = LOCKFILE /\ Executed(j)
    /\ \E j \in DeleteTasks : tasks[j].remote # LOCKFILE /\ Executed(j)

----------------------------------------------------------------------------
(* The enumeration on its own, with its threads scheduled fairly: a dry   *)
(* run from the scan of the local tree to the RemoteMap                   *)

\* the most objects in the storage zone of an enumeration
MaxEnumFiles == 3

J_V == <<106, 47, 118>>                        \* "j/v"

\* remote trees with two directories at the root and one below "k"
EnumKeys == RunKeys \cup {J_V}

InitEnum ==
    /\ disk = <<>>
    /\ \E R \in SUBSET EnumKeys, marker \in SUBSET {LOCKFILE} :
        /\ Cardinality(R) <= MaxEnumFiles
        /\ store = [k \in R \cup marker |->
                      IF k \in R THEN Object("B") ELSE Object(OldTimestamp)]
    /\ ignore \in RunIgnores
    /\ concurrency \in 0..MaxConcurrency
    /\ dry_run = TRUE
    /\ force = FALSE
    /\ store0 = store
    /\ held = FALSE
    /\ pc = "scan"
    /\ lock = None /\ result = "none"
    /\ local = <<>> /\ remote = <<>> /\ tasks = <<>>
    /\ dir_work = <<>> /\ dir_result = <<>> /\ responses_needed = 0
    /\ files = {} /\ lister = <<>>
    /\ task_work = <<>> /\ task_result = <<>> /\ collected = 0
    /\ worker = <<>> /\ open = {} /\ reqs = <<>> /\ faults = 0
    /\ resolved = None
    /\ runs = <<>>

ListerStep(w) ==
    w \in DOMAIN lister /\ (ListerRecv(w) \/ ListerList(w) \/ ListerExit(w))

NextEnum ==
    \/ Scan \/ ListStart \/ ListCollect \/ ListDone \/ ListJoin
    \/ \E w \in DOMAIN lister : ListerRecv(w) \/ ListerList(w) \/ ListerExit(w)

\* the coordinator and every spawned worker are threads of the operating
\* system: each runs again while it can
FairEnum ==
    /\ WF_vars(Scan \/ ListStart \/ ListCollect \/ ListDone \/ ListJoin)
    /\ \A w \in 1..MaxConcurrency : WF_vars(ListerStep(w))

SpecEnum == InitEnum /\ [][NextEnum]_vars /\ FairEnum

\* listing requests in flight
InFlight == Cardinality({w \in DOMAIN lister : lister[w].state = "busy"})

\* the enumeration ends only with the counter at zero, and then nothing is
\* pending, in flight or unconsumed; the RemoteMap is built only after
\* every worker has exited
C18_AtZero ==
    /\ (pc \in {"list_wait", "list_join"} /\ responses_needed = 0) =>
          dir_work = <<>> /\ InFlight = 0 /\ dir_result = <<>>
    /\ (pc = "list_join" /\ result = "none") =>
          responses_needed = 0 /\ "post_work" \notin open
    /\ pc = "plan" =>
          responses_needed = 0 /\ Joined(lister) /\ dir_work = <<>>

\* C18: with N >= 1 workers the enumeration of a finite tree ends: with the
\* RemoteMap, every worker having exited, unless a listing failed; it ends
\* exactly when the counter is zero, and then nothing is pending, in flight
\* or unconsumed.
C18_EnumerationTerminates ==
    /\ [] C18_AtZero
    /\ (pc = "list" /\ concurrency >= 1) ~> (pc = "plan" \/ result # "none")

\* two workers listed the root and a directory below it, all succeeded, and
\* the RemoteMap is built
C18_Witness ==
    /\ pc = "plan" /\ concurrency = 2 /\ faults = 0
    /\ Cardinality({r \in DOMAIN reqs : r[1] = "list"}) >= 2
    /\ Joined(lister) /\ responses_needed = 0
    /\ DOMAIN remote # {}

\* a result can still arrive: one is queued, a listing is in flight, or a
\* path is pending and a worker is there to take it
CanArrive ==
    \/ dir_result # <<>>
    \/ InFlight > 0
    \/ dir_work # <<>> /\ \E w \in DOMAIN lister : lister[w].state = "recv"

\* the counter is the paths pending plus the listings in flight plus the
\* results not yet taken
CounterIsOutstanding ==
    pc = "list_wait" =>
      /\ responses_needed = Len(dir_work) + InFlight + Len(dir_result)
      /\ responses_needed >= 0

\* C19 as stated, for every concurrency: the counter is what is
\* outstanding, and the coordinator never waits for a result that cannot
\* arrive.
C19_NeverWaitsInVain ==
    /\ CounterIsOutstanding
    /\ (pc = "list_wait" /\ responses_needed > 0) => CanArrive

\* C19: whenever the coordinator is about to wait, the counter is what is
\* outstanding and is not negative; with N >= 1 workers a result can then
\* arrive, with N = 0 the root stays pending and none ever can.
C19_CounterInvariant ==
    /\ CounterIsOutstanding
    /\ (pc = "list_wait" /\ responses_needed > 0) =>
          (CanArrive <=> concurrency >= 1)

\* two directories outstanding at once: one being listed, one pending or
\* answered
C19_Witness ==
    /\ pc = "list_wait" /\ concurrency >= 1
    /\ responses_needed = 2
    /\ InFlight = 1
    /\ Len(dir_work) + Len(dir_result) = 1

\* the deepest chain of directories of a key, the root included
MaxDepth == 3

\* the directories of a listing whose normalized path starts with no
\* protected prefix
OpenBelow(d) ==
    {subtree(c) : c \in {c \in ls_dir(d) : c.is_directory}}
        \ {x \in {subtree(c) : c \in {c \in ls_dir(d) : c.is_directory}} :
             \E p \in ignore : StartsWith(x, p)}

\* the root and the directories reachable from it through such directories
RECURSIVE Reachable(_)
Reachable(n) ==
    IF n = 0 THEN {RemotePath}
    ELSE Reachable(n - 1) \cup UNION {OpenBelow(d) : d \in Reachable(n - 1)}

ListRequests == {r \in DOMAIN reqs : r[1] = "list"}

\* C20: an enumeration that succeeded has sent exactly one listing request
\* for the root and for each directory reachable from it through
\* directories that are not skipped, none for a skipped directory or below
\* it, and its RemoteMap is the files of those directories, whatever the
\* number of workers and their interleaving.
C20_EnumerationExact ==
    pc = "plan" =>
      /\ {r[3] : r \in ListRequests} = Reachable(MaxDepth)
      /\ \A r \in ListRequests : reqs[r] = 1 /\ r[2] = "GET"
      /\ \A r \in ListRequests :
           r[3] # RemotePath => ~ \E p \in ignore : StartsWith(r[3], p)
      /\ remote =
           list_files(UNION {{c \in ls_dir(d) : ~ c.is_directory} :
                               d \in Reachable(MaxDepth)})

\* two workers; "k/s/" is skipped under the prefix "k" and its file is not
\* in the RemoteMap, the other two directories are listed
C20_Witness ==
    /\ pc = "plan" /\ concurrency = 2
    /\ K_S_Y \in DOMAIN store /\ K_S_Y \notin DOMAIN remote
    /\ {K_X_JS, J_V} \subseteq DOMAIN remote
    /\ Cardinality(ListRequests) = 3

\* how many tasks have been pulled from the queue
Pulled == Len(tasks) - Len(task_work)

IsUpload(t) == t.kind \in {"Put", "Replace"}

\* C21: the queue holds the whole plan, in the planner's order, before a
\* worker exists, and is pulled from the front: what is left is always a
\* suffix of the plan, so task i is pulled before task j whenever i < j;
\* no HTML upload is pulled while a non-HTML upload is queued, and no delete
\* while an upload is queued.
C21_PulledInPlanOrder ==
    /\ (pc = "plan") => (task_work = <<>> /\ worker = <<>>)
    /\ pc \in {"collect", "exec_join", "drop", "done"} =>
         /\ task_work = SubSeq(tasks, Pulled + 1, Len(tasks))
         /\ \A i, j \in DOMAIN tasks :
              (i < j /\ j <= Pulled) => i <= Pulled
         /\ \A i \in 1..Pulled, j \in (Pulled + 1)..Len(tasks) :
              /\ (IsUpload(tasks[i]) /\ is_html(tasks[i].remote))
                   => ~ (IsUpload(tasks[j]) /\ ~ is_html(tasks[j].remote))
              /\ tasks[i].kind = "Delete" => ~ IsUpload(tasks[j])

\* two workers hold the first two tasks of a plan of three: the non-HTML
\* upload and the HTML upload are pulled, the delete is queued
C21_Witness ==
    /\ pc = "collect" /\ concurrency = 2
    /\ Len(tasks) = 3 /\ Pulled = 2 /\ Busy = 2
    /\ ~ is_html(tasks[1].remote) /\ IsUpload(tasks[1])
    /\ is_html(tasks[2].remote) /\ IsUpload(tasks[2])
    /\ tasks[3].kind = "Delete"

\* C22: with one worker the tasks complete in the planner's order: the
\* completed tasks are always the first ones of the plan, one at a time.
\* With two workers there is no such order (C22_Witness is reached).
C22_OneWorkerCompletesInOrder ==
    (concurrency = 1 /\ pc \in {"collect", "exec_join", "drop", "done"}) =>
      /\ Busy <= 1
      /\ \A j \in DOMAIN tasks : Executed(j) <=> j <= Pulled - Busy
      /\ \A i, j \in DOMAIN tasks : (i < j /\ Executed(j)) => Executed(i)

\* two workers: the HTML upload, second in the plan, is in the store while
\* the non-HTML upload that precedes it is still with its worker
C22_Witness ==
    /\ concurrency = 2 /\ ~ dry_run /\ pc = "collect"
    /\ \E i, j \in DOMAIN tasks :
         /\ i < j
         /\ IsUpload(tasks[i]) /\ ~ is_html(tasks[i].remote)
         /\ IsUpload(tasks[j]) /\ is_html(tasks[j].remote)
         /\ ~ Executed(i) /\ tasks[i].remote \in BusyKeys
         /\ Executed(j) /\ Uploaded(tasks[j].remote)

----------------------------------------------------------------------------
(* Several invocations against one lock object: each runs Lock::new, holds *)
(* the Lock while its job runs, and drops it. No task deletes the marker   *)
(* (C17), so between Lock::new and the drop a run leaves it in the store.  *)

\* how many invocations share the lock object
MaxRuns == 2

\* an invocation: where it is, and what is known of its acquisition:
\* raced - another invocation was between its read and its write when this
\* one read, or read while this one was; misread - its read failed though
\* the marker was in the store
Run(at, raced, misread) == [at |-> at, raced |-> raced, misread |-> misread]

InitLock ==
    /\ runs = [r \in 1..MaxRuns |-> Run("lock_read", FALSE, FALSE)]
    /\ \E marker \in SUBSET {LOCKFILE} :
         store = [k \in marker |-> Object(OldTimestamp)]
    /\ force \in BOOLEAN
    /\ dry_run = FALSE
    /\ disk = <<>> /\ ignore = {} /\ concurrency = 1
    /\ store0 = store
    /\ held = FALSE
    /\ pc = "done"
    /\ lock = None /\ result = "none"
    /\ local = <<>> /\ remote = <<>> /\ tasks = <<>>
    /\ dir_work = <<>> /\ dir_result = <<>> /\ responses_needed = 0
    /\ files = {} /\ lister = <<>>
    /\ task_work = <<>> /\ task_result = <<>> /\ collected = 0
    /\ worker = <<>> /\ open = {} /\ reqs = <<>> /\ faults = 0
    /\ resolved = None

lockVars == <<disk, ignore, concurrency, dry_run, force, store0, enumVars,
              execVars, pc, lock, result, local, remote, tasks, open, held,
              resolved>>

acquires_if_absent(write_ok, marker_present) == write_ok /\ ~ marker_present

\* Lock::new: put_file is a plain PUT; whether a marker is there by now
\* plays no part
acquires(write_ok, marker_present) == write_ok

\* Lock::new of invocation r, first half: read_file and the force test
RunLockRead(r) ==
    /\ runs[r].at = "lock_read"
    /\ reqs' = Logged(reqs, Req("lock", "GET", LOCKFILE))
    /\ \E ok \in (IF LOCKFILE \in DOMAIN store THEN Outcomes ELSE {FALSE}) :
        LET missed == ~ ok /\ LOCKFILE \in DOMAIN store
            between == {o \in DOMAIN runs \ {r} : runs[o].at = "lock_write"}
        IN  /\ faults' = faults + (IF missed THEN 1 ELSE 0)
            /\ runs' = [o \in DOMAIN runs |->
                 IF o = r
                 THEN Run(IF lock_refuses(ok) THEN "refused" ELSE "lock_write",
                          between # {}, missed)
                 ELSE IF o \in between
                 THEN Run(runs[o].at, TRUE, runs[o].misread)
                 ELSE runs[o]]
    /\ UNCHANGED <<lockVars, store>>

\* Lock::new of invocation r, second half: put_file(lockfile, now)
RunLockWrite(r) ==
    /\ runs[r].at = "lock_write"
    /\ reqs' = Logged(reqs, Req("lock", "PUT", LOCKFILE))
    /\ \E ok \in Outcomes :
        /\ Fault(ok)
        /\ store' = IF ok THEN StorePut(store, LOCKFILE, Now) ELSE store
        /\ runs' = [runs EXCEPT ![r].at =
                      IF acquires(ok, LOCKFILE \in DOMAIN store) THEN "held"
                      ELSE "write_failed"]
    /\ UNCHANGED lockVars

\* the job of invocation r is over: Drop for Lock
RunLockDrop(r) ==
    /\ runs[r].at = "held"
    /\ reqs' = Logged(reqs, Req("lock", "DELETE", LOCKFILE))
    /\ \E ok \in (IF LOCKFILE \in DOMAIN store THEN BOOLEAN ELSE {FALSE}) :
        /\ Fault(ok)
        /\ store' = IF ok THEN StoreDelete(store, LOCKFILE) ELSE store
    /\ runs' = [runs EXCEPT ![r].at = "done"]
    /\ UNCHANGED lockVars

NextLock ==
    \E r \in DOMAIN runs : RunLockRead(r) \/ RunLockWrite(r) \/ RunLockDrop(r)

SpecLock == InitLock /\ [][NextLock]_vars

HeldRuns == {r \in DOMAIN runs : runs[r].at = "held"}

\* C23: the write of an acquisition is unconditional: an invocation that has
\* passed its read reaches Held as soon as its PUT succeeds, whatever
\* another invocation has read or written since; two non-forced invocations
\* that both read the marker as absent are then Held together (C23_Witness).
C23_WriteIsUnconditional ==
    [][\A r \in DOMAIN runs :
         (runs[r].at = "lock_write" /\ runs'[r].at # "lock_write"
            /\ faults' = faults)
         => /\ runs'[r].at = "held"
            /\ At(store', LOCKFILE) = Some(Object(Now))]_vars

\* not forced, no marker at first, every read truthful: both invocations
\* read before either wrote, and both are Held
C23_Witness ==
    /\ ~ force /\ LOCKFILE \notin DOMAIN store0 /\ faults = 0
    /\ Cardinality(HeldRuns) = 2
    /\ \A r \in DOMAIN runs : runs[r].raced /\ ~ runs[r].misread

\* every thread of a pool has returned
AllExited(threads) == \A w \in DOMAIN threads : threads[w].state = "exit"

\* list_files has returned to execute
ListReturned == pc \in {"plan", "collect", "exec_join", "drop", "done"}

\* the execution phase of execute has returned
ExecReturned == pc \in {"drop", "done"}

\* the requests of one origin are what they were
SameRequests(origin) ==
    \A r \in DOMAIN reqs' :
      r[1] = origin => (r \in DOMAIN reqs /\ reqs'[r] = reqs[r])

\* when a phase has returned, every worker it spawned has exited
C24_WorkersExited ==
    /\ ListReturned => AllExited(lister)
    /\ ExecReturned => AllExited(worker)

\* C24: workers are scoped to their phase: once list_files has returned, with
\* the map or with an error, every worker of the enumeration has exited and
\* no listing request is sent any more; once the execution phase has
\* returned, every worker has exited and no upload or delete is sent.
C24_WorkersScoped ==
    /\ [] C24_WorkersExited
    /\ [][/\ ListReturned => SameRequests("list")
          /\ ExecReturned => SameRequests("task")]_vars

\* a task failed with two workers and tasks left in the queue; execute has
\* returned and both workers, and both workers of the enumeration, are gone
C24_Witness ==
    /\ Returned("task_failed") /\ concurrency = 2
    /\ AllExited(worker) /\ AllExited(lister)
    /\ DOMAIN worker = 1..2 /\ DOMAIN lister = 1..2
    /\ TaskRequests # {} /\ ListRequests # {}

\* C25 as stated: once the coordinator has aborted on a task's error, the
\* queue is left as it is and no worker pulls from it.
C25_NoPullAfterAbort ==
    [][result = "task_failed" =>
         /\ task_work' = task_work
         /\ \A w \in DOMAIN worker :
              worker[w].state = "recv" => worker'[w].state # "busy"]_vars

\* C25: once the coordinator has aborted, a worker that finishes a task
\* exits, and a worker that has exited stays so: each worker finishes at
\* most one more task - the one it had pulled, or the next one of the queue,
\* which it still pulls and applies - and the tasks behind those stay in
\* the queue.
C25_OneMoreTaskPerWorker ==
    [][result = "task_failed" =>
         \A w \in DOMAIN worker :
           /\ (worker[w].state = "busy" /\ worker'[w].state # "busy")
                => worker'[w].state = "exit"
           /\ worker[w].state = "exit" => worker'[w].state = "exit"
           /\ (worker[w].state = "recv" /\ worker'[w].state = "busy")
                => task_work' = Tail(task_work)]_vars

\* one worker, the first task failed, and the second, which was in the
\* queue when the first was pulled, has been applied to the store; execute
\* has returned the error
C25_Witness ==
    /\ Returned("task_failed") /\ concurrency = 1 /\ ~ dry_run
    /\ Len(tasks) >= 2 /\ Pulled = 2
    /\ Cardinality(TaskRequests) = 2
    /\ \E k \in DOMAIN store \ {LOCKFILE} :
         Uploaded(k) /\ k = tasks[2].remote

\* requests sent by the enumeration and by tasks
WorkRequests == ListRequests \cup TaskRequests

\* in a non-dry run, work is requested only once the marker is written, and
\* the marker's delete is sent only after execute's body is over and every
\* worker has exited
C26_Bracket ==
    ~ dry_run =>
      /\ WorkRequests # {} => (held /\ Count(LockPut) = 1)
      /\ ~ held => pc \in {"lock_read", "lock_write", "done"}
      /\ Count(LockDelete) > 0 =>
           pc = "done" /\ lock = None /\ AllExited(lister) /\ AllExited(worker)

\* C26: in a non-dry run every listing, upload and delete request comes
\* after the marker's write has succeeded and before the marker's delete is
\* sent; the delete is the last request of the run, sent after every worker
\* has exited.
C26_LockBracketsRun ==
    /\ [] C26_Bracket
    /\ [][(~ dry_run /\ Count(LockDelete) > 0) => reqs' = reqs]_vars

\* a run that listed, uploaded and deleted between the marker's write and
\* the marker's delete
C26_Witness ==
    /\ ~ dry_run /\ Returned("ok") /\ held
    /\ Count(LockPut) = 1 /\ Count(LockDelete) = 1
    /\ ListRequests # {}
    /\ \E r \in TaskRequests : r[2] = "PUT"
    /\ \E r \in TaskRequests : r[2] = "DELETE"

\* C27: from the acquisition to the release of a non-dry run no task sends
\* a PUT or a DELETE for the marker, which keeps the timestamp written at
\* acquisition.
C27_MarkerUntouched ==
    (held /\ lock # None) =>
      /\ Count(TaskPutReq(LOCKFILE)) = 0
      /\ Count(TaskDeleteReq(LOCKFILE)) = 0
      /\ At(store, LOCKFILE) = Some(Object(Now))

\* it holds when no local file has the lock object's name
C27_MarkerUntouchedByOtherKeys ==
    LOCKFILE \notin DiskKeys => C27_MarkerUntouched

Orderly == ~ force /\ \A r \in DOMAIN runs : ~ runs[r].raced /\ ~ runs[r].misread

\* C29: if no invocation is forced, every read of the marker reflects the
\* store and no two acquisitions interleave, at most one invocation is Held
\* at any time, the marker is in the store while one is, and an invocation
\* that reads while another is Held is refused.
C29_MutualExclusion ==
    /\ [] (Orderly => /\ Cardinality(HeldRuns) <= 1
                      /\ HeldRuns # {} => LOCKFILE \in DOMAIN store)
    /\ [][\A r \in DOMAIN runs :
            (Orderly' /\ HeldRuns # {} /\ runs[r].at = "lock_read"
               /\ runs'[r].at # "lock_read")
            => runs'[r].at = "refused"]_vars

\* one invocation is Held, the other read the marker meanwhile and was
\* refused
C29_Witness ==
    /\ Orderly /\ faults = 0
    /\ \E a, b \in DOMAIN runs :
         runs[a].at = "held" /\ runs[b].at = "refused"
    /\ LOCKFILE \notin DOMAIN store0

----------------------------------------------------------------------------
(* A run with its threads scheduled fairly *)

WorkerStep(w) ==
    w \in DOMAIN worker /\ (WorkerRecv(w) \/ WorkerExecute(w) \/ WorkerExit(w))

\* the thread of execute, and every worker of either pool, runs again while
\* it can: they are threads of the operating system, and a request returns
FairRun ==
    /\ WF_vars(LockRead \/ LockWrite \/ LockDrop \/ Scan \/ ListStart
                 \/ ListCollect \/ ListDone \/ ListJoin \/ PlanAndSubmit
                 \/ Collect \/ CollectDone \/ ExecJoin)
    /\ \A w \in 1..MaxConcurrency :
         WF_vars(ListerStep(w)) /\ WF_vars(WorkerStep(w))

SpecFair == Init /\ [][Next]_vars /\ FairRun

\* with no worker the coordinator of the enumeration waits for ever, and the
\* run never gets to plan or execute
C30_Blocked ==
    concurrency = 0 =>
      /\ lister = <<>> /\ worker = <<>>
      /\ pc \notin {"list_join", "plan", "collect", "exec_join"}
      /\ pc = "list_wait" =>
           responses_needed = 1 /\ dir_work = <<RemotePath>> /\ dir_result = <<>>
      /\ pc \in {"drop", "done"} =>
           result \in {"lock_held", "lock_write_failed", "scan_failed"}

C30_WitnessBlocked ==
    /\ concurrency = 0 /\ pc = "list_wait" /\ ~ dry_run /\ held
    /\ dir_work = <<RemotePath>>

----------------------------------------------------------------------------
(* Two invocations in a row: the command is run again, with the same       *)
(* arguments and the same local tree, right after a non-dry run that       *)
(* returned Ok. runs records the invocation that is over.                  *)

InitTwice == Init /\ ~ dry_run /\ concurrency >= 1

\* main: a new SyncJob is built from the same arguments and executed; the
\* storage zone is what the first invocation left
Rerun ==
    /\ pc = "done" /\ result = "ok" /\ runs = <<>>
    /\ runs' = <<Run("done", FALSE, FALSE)>>
    /\ pc' = "lock_read"
    /\ lock' = None /\ result' = "none"
    /\ local' = <<>> /\ remote' = <<>> /\ tasks' = <<>>
    /\ dir_work' = <<>> /\ dir_result' = <<>> /\ responses_needed' = 0
    /\ files' = {} /\ lister' = <<>>
    /\ task_work' = <<>> /\ task_result' = <<>> /\ collected' = 0
    /\ worker' = <<>> /\ open' = {} /\ reqs' = <<>> /\ faults' = 0
    /\ store0' = store /\ held' = FALSE
    /\ UNCHANGED <<disk, store, ignore, concurrency, dry_run, force, resolved>>

NextTwice == Next \/ Rerun

SpecTwice == InitTwice /\ [][NextTwice]_vars

\* this is the second invocation
Second == runs # <<>>

\* the plan is made
HasPlan == pc \in {"collect", "exec_join", "drop", "done"}

\* C31 as stated: the second invocation sends no PUT and no DELETE for an
\* object other than the marker, and every task for a local file other
\* than the marker is a Replace that resolves to Ignore.
C31_SecondRunSendsNothing ==
    Second =>
      /\ \A r \in TaskRequests : r[3] = LOCKFILE
      /\ HasPlan =>
           \A j \in DOMAIN tasks :
             (tasks[j].kind # "Delete" /\ tasks[j].remote # LOCKFILE) =>
                tasks[j].kind = "Replace" /\ Expected(tasks[j]) = "unchanged"

\* C31: the second invocation sends no DELETE; every local file the
\* enumeration lists is planned as a Replace that resolves to Ignore; a
\* local file the enumeration does not list, because it lies in a skipped
\* directory, is planned as Put and uploaded again; apart from the marker
\* the store stays what the first invocation left.
C31_SecondRunIdempotent ==
    Second =>
      /\ \A r \in TaskRequests :
           /\ r[2] = "PUT"
           /\ r[3] # LOCKFILE =>
                (r[3] \in DiskKeys /\ Protected(r[3]) /\ r[3] \notin DOMAIN remote)
      /\ HasPlan =>
           \A j \in DOMAIN tasks :
             tasks[j].remote # LOCKFILE =>
               IF tasks[j].remote \in DOMAIN remote
               THEN tasks[j].kind = "Replace" /\ Expected(tasks[j]) = "unchanged"
               ELSE tasks[j].kind = "Put" /\ Protected(tasks[j].remote)
      /\ StoreDelete(store, LOCKFILE) = StoreDelete(store0, LOCKFILE)

\* a second invocation that skipped one local file and uploaded again the
\* one in the skipped directory has returned
C31_Witness ==
    /\ Second /\ Returned("ok")
    /\ \E j \in DOMAIN tasks :
         tasks[j].kind = "Replace" /\ tasks[j].remote # LOCKFILE
           /\ Expected(tasks[j]) = "unchanged"
    /\ Count(TaskPutReq(K_S_Y)) = 1
    /\ K_S_Y \in DOMAIN store0
====
